---- MODULE Spec2Model ----
(***************************************************************************)
(* Model of CodeDeck Mailer (src/mailer.py): the progress ledger           *)
(* (ProgressTracker), the campaign driver (main, run_campaign) and the     *)
(* template expander (replace_variables, process_spintax, build_message).  *)
(*                                                                         *)
(* One operating-system process at a time runs main(); `pc` is its         *)
(* position.  The disk holds the progress file (`file`) and the temporary  *)
(* file of _save (`tmp`).  The process can be interrupted (Ctrl+C, kill)   *)
(* at any position; the UTC date (`today`) can advance at any moment.      *)
(***************************************************************************)
EXTENDS Integers, Sequences, FiniteSets, TLC

\* ------------------------------------------------------------------ bounds
MaxDay == 1          \* UTC dates are 0..MaxDay
MaxRuns == 2         \* launches of main() in one behaviour
MaxRaw == 2          \* entries of one recipient source
MaxLimit == 2        \* largest --limit tried
MaxDailyLimit == 2   \* largest rate_limiting.daily_limit tried
MaxTpl == 6          \* longest template, in symbols

\* --------------------------------------------------------------- constants
NoDate == -1         \* "daily_date": None

\* ------------------------------------------------------------------ emails
\* Raw entries of the recipient sources: str.strip().lower() is modelled by
\* its table on these strings; "nobody" has no "@" in it.
RawEmails == {"a@x", " A@X ", "b@x", "nobody"}

Strip(s) == IF s = " A@X " THEN "A@X" ELSE s

Lower(s) == IF s = "A@X" THEN "a@x" ELSE IF s = " A@X " THEN " a@x " ELSE s

HasAt(s) == s # "nobody"

\* --to addresses: used as typed, neither stripped nor lowercased.
TestEmails == {"A@X"}

\* Error texts: two the sender raises, one the file system raises in _save.
SendErrors == {"Gmail API error: 500", "Gmail API error: 429 quota"}

SaveError == "No space left on device"

Range(s) == {s[k] : k \in 1..Len(s)}

Min(a, b) == IF a < b THEN a ELSE b

\* ------------------------------------------------------------------ ledger
\* self.data: `failed` is a dict, modelled as a function from its keys;
\* last_updated is None (FALSE) or a timestamp (TRUE), whose value nothing reads.
NoFailures == [e \in {} |-> ""]

DefaultLedger ==
    [sent |-> <<>>, failed |-> NoFailures, last_updated |-> FALSE,
     daily_count |-> 0, daily_date |-> NoDate]

\* Contents of a file on disk: absent, text json.load rejects, JSON that is
\* no ledger (e.g. {} or []), a json.dump cut short, or a whole ledger.
Missing == [kind |-> "missing", led |-> DefaultLedger]
Unparsable == [kind |-> "unparsable", led |-> DefaultLedger]
NotLedger == [kind |-> "notledger", led |-> DefaultLedger]
Partial == [kind |-> "partial", led |-> DefaultLedger]
Stored(d) == [kind |-> "ledger", led |-> d]

\* ProgressTracker._load: what self.data is afterwards, and whether the
\* constructor raised.  A partial dump is rejected by json.load like any
\* other unparsable text; JSON without "sent"/"failed" passes json.load and
\* the print of len(self.data['sent']) raises KeyError/TypeError, which the
\* except clause (json.JSONDecodeError only) does not catch.
LoadRaises(f) == f.kind = "notledger"

LoadData(f) == IF f.kind = "ledger" THEN f.led ELSE DefaultLedger

\* ProgressTracker.is_sent, and a case-sensitive variant.
IsSentExact(d, email) == email \in Range(d.sent)

is_sent(d, email) == Lower(email) \in {Lower(d.sent[k]) : k \in 1..Len(d.sent)}

\* ProgressTracker._update_daily_count, and a variant that restarts at 0.
UpdateFromZero(d, day) ==
    IF d.daily_date # day
    THEN [d EXCEPT !.daily_date = day, !.daily_count = 0]
    ELSE [d EXCEPT !.daily_count = d.daily_count + 1]

update_daily_count(d, day) ==
    IF d.daily_date # day
    THEN [d EXCEPT !.daily_date = day, !.daily_count = 1]
    ELSE [d EXCEPT !.daily_count = d.daily_count + 1]

\* ProgressTracker.get_daily_count.
get_daily_count(d, day) == IF d.daily_date # day THEN 0 ELSE d.daily_count

\* ProgressTracker.mark_sent and mark_failed, up to their call of _save.
mark_sent(d, email, day) ==
    update_daily_count([d EXCEPT !.sent = Append(d.sent, email)], day)

mark_failed(d, email, reason) ==
    [d EXCEPT !.failed = [e \in DOMAIN d.failed \cup {email} |->
                             IF e = email THEN reason ELSE d.failed[e]]]

\* ------------------------------------------------------- recipient fetcher
RawLists == UNION {[1..n -> RawEmails] : n \in 0..MaxRaw}

\* The loop of fetch_from_mongodb / fetch_from_json over the raw entries:
\* normalise, drop entries without "@", keep the first of each address.
RECURSIVE FetchFrom(_, _)
FetchFrom(raw, acc) ==
    IF raw = <<>> THEN acc
    ELSE LET email == Lower(Strip(Head(raw)))
         IN  IF ~HasAt(email) \/ email \in Range(acc)
             THEN FetchFrom(Tail(raw), acc)
             ELSE FetchFrom(Tail(raw), Append(acc, email))

\* fetch_recipients before the shuffle: MongoDB's recipients, then those of
\* emails.json that MongoDB did not give.
Merged(mongo, json) ==
    LET m == FetchFrom(mongo, <<>>)
        j == FetchFrom(json, <<>>)
    IN  m \o SelectSeq(j, LAMBDA e : e \notin Range(m))

Perms(s) ==
    {[k \in 1..Len(s) |-> s[p[k]]] :
        p \in {q \in [1..Len(s) -> 1..Len(s)] : \A a, b \in 1..Len(s) : q[a] = q[b] => a = b}}

\* Every list fetch_recipients can return (random.shuffle: any order).
FetchResults == UNION {Perms(Merged(m, j)) : m \in RawLists, j \in RawLists}

\* pending[:n] for n >= 0.
Take(s, n) == SubSeq(s, 1, Min(n, Len(s)))

\* "if limit:" is false for None and for 0.
LimitTruthy(a) == a.has_limit /\ a.limit # 0

\* run_campaign lines 486-494: the explicit limit, then the daily cap.
ApplyLimits(p, a, remaining_today) ==
    LET limited == IF LimitTruthy(a) THEN Take(p, a.limit) ELSE p
    IN  IF Len(limited) > remaining_today THEN Take(limited, remaining_today)
        ELSE limited

\* ------------------------------------------------------- template expander
\* A text is a sequence of symbols: the braces, the bar, and names, each name
\* one symbol (a run of characters without braces or bars).
Symbols == {"{", "}", "|", "first_name", "city"}

Templates == UNION {[1..n -> Symbols] : n \in 0..MaxTpl}

\* first_name values (extract_first_name: a token of the name, or "there").
FirstNames == {<<"Ana">>, <<"there">>}

\* f"{{{{{key}}}}}" for a key: the placeholder {{key}}.
Placeholder(key) == <<"{", "{", key, "}", "}">>

StartsWith(t, pat) == Len(t) >= Len(pat) /\ SubSeq(t, 1, Len(pat)) = pat

\* str.replace(pat, val): every occurrence, left to right, not overlapping.
RECURSIVE str_replace(_, _, _)
str_replace(t, pat, val) ==
    IF Len(t) < Len(pat) THEN t
    ELSE IF StartsWith(t, pat)
         THEN val \o str_replace(SubSeq(t, Len(pat) + 1, Len(t)), pat, val)
    ELSE <<Head(t)>> \o str_replace(Tail(t), pat, val)

\* replace_variables with build_message's variables {"first_name": value}.
\* The variant drops the result of str.replace.
ReplaceNothing(t, value) == t

replace_variables(t, value) == str_replace(t, Placeholder("first_name"), value)

IsBrace(c) == c \in {"{", "}"}

\* The length of the match of r"\{([^{}]+)\}" at the head of t, 0 if none.
MatchLen(t) ==
    IF t = <<>> \/ Head(t) # "{" THEN 0
    ELSE LET closers == {q \in 3..Len(t) :
                            /\ t[q] = "}"
                            /\ \A k \in 2..(q - 1) : ~IsBrace(t[k])}
         IN  IF closers = {} THEN 0 ELSE CHOOSE q \in closers : TRUE

\* re.search(pattern, text).
HasGroup(t) == \E p \in 1..Len(t) : MatchLen(SubSeq(t, p, Len(t))) > 0

\* match.group(1).split("|"): the options, each a text (possibly empty).
RECURSIVE Split(_, _)
Split(inner, cur) ==
    IF inner = <<>> THEN <<cur>>
    ELSE IF Head(inner) = "|" THEN <<cur>> \o Split(Tail(inner), <<>>)
    ELSE Split(Tail(inner), Append(cur, Head(inner)))

\* One re.sub(pattern, replace_spin, text): every match, left to right, is
\* replaced by one of its options; rnd[k] is random.choice's draw for the
\* k-th match.
RECURSIVE SubPass(_, _, _)
SubPass(t, rnd, k) ==
    IF t = <<>> THEN <<>>
    ELSE LET n == MatchLen(t)
         IN  IF n = 0 THEN <<Head(t)>> \o SubPass(Tail(t), rnd, k)
             ELSE LET options == Split(SubSeq(t, 2, n - 1), <<>>)
                  IN  options[(rnd[k] % Len(options)) + 1]
                         \o SubPass(SubSeq(t, n + 1, Len(t)), rnd, k + 1)

\* The draws of one pass: a match takes three symbols or more, an option
\* two (itself and its bar), so these cover every choice.
Draws == [1..((MaxTpl \div 3) + 1) -> 0..(MaxTpl \div 2)]

\* ------------------------------------------------------------------- state
VARIABLES
    file,             \* data/progress.json
    tmp,              \* data/progress.tmp
    today,            \* datetime.now(timezone.utc).date()
    daily_limit,      \* config rate_limiting.daily_limit
    runs,             \* launches of main() so far
    pc,               \* position of the running process, "idle" when none
    exit,             \* how the last process ended
    args,             \* parsed command line
    data,             \* ProgressTracker.data of the running process
    caller,           \* the operation _save was called from
    remaining_today,  \* run_campaign's local
    pending,          \* run_campaign's local
    i,                \* index of the send loop, from 1
    errmsg,           \* str(e) in the except clause of the send loop
    start,            \* history: file and self.data when run_campaign loaded
    skipped,          \* len(recipients) - len(pending), line 480
    all_pending,      \* history: pending before the limits were applied
    sends,            \* history: addresses send_email was invoked for, this run
    outcomes,         \* history: finished attempts of this run
    calls,            \* history: mark_* calls of the attempt in progress
    save_base,        \* history: the progress file when _save was entered
    delivered,        \* history: per UTC date, the sends gmail.send_email completed
                      \* since the behaviour began
    tpl               \* build_message at work on one template

vars ==
    <<file, tmp, today, daily_limit, runs, pc, exit, args, data, caller,
      remaining_today, pending, i, errmsg, start, skipped, all_pending, sends,
      outcomes, calls, save_base, delivered, tpl>>

disk == <<file, tmp>>

env == <<today, daily_limit, tpl, delivered>>

NoArgs ==
    [reset |-> FALSE, dry_run |-> FALSE, has_limit |-> FALSE, limit |-> 0, to |-> ""]

\* argparse: --reset, --dry-run, --limit N (N >= 0 here), --to ADDRESS.
ArgSets ==
    [reset : BOOLEAN, dry_run : BOOLEAN, has_limit : {FALSE}, limit : {0},
     to : TestEmails \cup {""}]
    \cup
    [reset : BOOLEAN, dry_run : BOOLEAN, has_limit : {TRUE}, limit : 0..MaxLimit,
     to : TestEmails \cup {""}]

\* No template is being expanded.
NoTpl == [pc |-> "none", template |-> <<>>, value |-> <<>>, mid |-> <<>>, text |-> <<>>]

\* The progress file an earlier campaign left on date 0: two addresses sent,
\* one failed.
EarlierLedger ==
    [sent |-> <<"o@x", "p@x">>,
     failed |-> [e \in {"b@x"} |-> "Gmail API error: 500"],
     last_updated |-> TRUE, daily_count |-> 2, daily_date |-> 0]

\* The progress file and the configured daily_limit a behaviour starts with.
StartingPoints ==
    ({Missing} \X {1, MaxDailyLimit})
    \cup ({Unparsable, NotLedger, Stored(EarlierLedger)} \X {MaxDailyLimit})

NoStart == [file |-> Missing, data |-> DefaultLedger]

\* No send has been completed on any date.
NoneDelivered == [d \in 0..MaxDay |-> 0]

Init ==
    /\ \E sp \in StartingPoints : file = sp[1] /\ daily_limit = sp[2]
    /\ tmp = Missing
    /\ today = 0
    /\ runs = 0
    /\ pc = "idle"
    /\ exit = "none"
    /\ args = NoArgs
    /\ data = DefaultLedger
    /\ caller = "none"
    /\ remaining_today = 0
    /\ pending = <<>>
    /\ i = 0
    /\ errmsg = ""
    /\ start = NoStart
    /\ skipped = 0
    /\ all_pending = <<>>
    /\ sends = <<>>
    /\ outcomes = <<>>
    /\ calls = {}
    /\ save_base = Missing
    /\ delivered = NoneDelivered
    /\ tpl = NoTpl

\* The process ends: its memory is gone, the disk stays.
Exit(how) ==
    /\ pc' = "idle"
    /\ exit' = how
    /\ args' = NoArgs
    /\ data' = DefaultLedger
    /\ caller' = "none"
    /\ remaining_today' = 0
    /\ pending' = <<>>
    /\ i' = 0
    /\ errmsg' = ""
    /\ start' = NoStart
    /\ skipped' = 0
    /\ all_pending' = <<>>
    /\ sends' = <<>>
    /\ outcomes' = <<>>
    /\ calls' = {}
    /\ save_base' = Missing

run_locals == <<remaining_today, pending, i, errmsg>>

history == <<start, skipped, all_pending, sends, outcomes, calls, save_base>>

\* ----------------------------------------------------------------- actions
\* main() is launched with some command line.
Launch ==
    /\ pc = "idle"
    /\ runs < MaxRuns
    /\ \E a \in ArgSets :
        /\ args' = a
        /\ pc' = IF a.reset THEN "reset" ELSE "run"
    /\ runs' = runs + 1
    /\ exit' = "none"
    /\ UNCHANGED <<disk, env, data, caller, run_locals, history>>

\* main line 593: tracker = ProgressTracker().
ResetLoad ==
    /\ pc = "reset"
    /\ IF LoadRaises(file)
       THEN Exit("load_error") /\ UNCHANGED <<disk, env, runs>>
       ELSE /\ data' = LoadData(file)
            /\ pc' = "reset_call"
            /\ UNCHANGED <<disk, env, runs, exit, args, caller, run_locals, history>>

\* main line 594: tracker.reset(), up to its call of _save.
Reset ==
    /\ pc = "reset_call"
    /\ data' = DefaultLedger
    /\ caller' = "reset"
    /\ pc' = "save_open"
    /\ save_base' = file
    /\ UNCHANGED <<disk, env, runs, exit, args, run_locals, start, skipped,
                   all_pending, sends, outcomes, calls>>

\* run_campaign lines 441-461: progress = ProgressTracker(), then the daily
\* quota check.
QuotaCheck ==
    /\ pc = "run"
    /\ IF LoadRaises(file)
       THEN Exit("load_error") /\ UNCHANGED <<disk, env, runs>>
       ELSE LET d == LoadData(file)
                daily_count == get_daily_count(d, today)
            IN  IF daily_count >= daily_limit
                THEN Exit("quota") /\ UNCHANGED <<disk, env, runs>>
                ELSE /\ data' = d
                     /\ remaining_today' = daily_limit - daily_count
                     /\ start' = [file |-> file, data |-> d]
                     /\ pc' = "fetch"
                     /\ UNCHANGED <<disk, env, runs, exit, args, caller, pending,
                                    i, errmsg, skipped, all_pending, sends,
                                    outcomes, calls, save_base>>

\* Where run_campaign goes once pending is cut (lines 496-526).
AlwaysSend(a) == "send"

AfterLimits(a) == IF a.dry_run THEN "preview" ELSE "send"

\* run_campaign lines 463-494: the recipients, the pending ones, the limits.
Fetch ==
    /\ pc = "fetch"
    /\ \E rs \in (IF args.to # "" THEN {<<args.to>>} ELSE FetchResults) :
        LET p == SelectSeq(rs, LAMBDA e : ~is_sent(data, e))
        IN  IF rs = <<>> \/ p = <<>>
            THEN Exit("nothing") /\ UNCHANGED <<disk, env, runs>>
            ELSE /\ skipped' = Len(rs) - Len(p)
                 /\ all_pending' = p
                 /\ pending' = ApplyLimits(p, args, remaining_today)
                 /\ i' = 1
                 /\ pc' = AfterLimits(args)
                 /\ UNCHANGED <<disk, env, runs, exit, args, data, caller,
                                remaining_today, errmsg, start, sends, outcomes,
                                calls, save_base>>

\* run_campaign lines 497-516: the preview prints and returns.
Preview ==
    /\ pc = "preview"
    /\ Exit("done")
    /\ UNCHANGED <<disk, env, runs>>

\* run_campaign line 536: gmail.send_email returns, the email is out.
SendReturns ==
    /\ pc = "send"
    /\ sends' = Append(sends, pending[i])
    /\ calls' = {}
    /\ pc' = "mark_sent"
    /\ UNCHANGED <<disk, today, daily_limit, tpl, runs, exit, args, data, caller,
                   run_locals, start, skipped, all_pending, outcomes, save_base>>

\* The same step where the per-date history of deliveries is not kept.
SendOk ==
    /\ SendReturns
    /\ UNCHANGED delivered

\* The same step, entered in the per-date history of deliveries.
SendCounted ==
    /\ SendReturns
    /\ delivered' = [delivered EXCEPT ![today] = @ + 1]

\* run_campaign lines 536, 541-542: gmail.send_email raises.
SendFails ==
    /\ pc = "send"
    /\ \E e \in SendErrors : errmsg' = e
    /\ sends' = Append(sends, pending[i])
    /\ calls' = {}
    /\ pc' = "mark_failed"
    /\ UNCHANGED <<disk, env, runs, exit, args, data, caller, remaining_today,
                   pending, i, start, skipped, all_pending, outcomes, save_base>>

\* run_campaign line 537: progress.mark_sent(email), up to its call of _save.
MarkSent ==
    /\ pc = "mark_sent"
    /\ data' = mark_sent(data, pending[i], today)
    /\ calls' = calls \cup {"mark_sent"}
    /\ caller' = "mark_sent"
    /\ save_base' = file
    /\ pc' = "save_open"
    /\ UNCHANGED <<disk, env, runs, exit, args, run_locals, start, skipped, all_pending,
                   sends, outcomes>>

\* run_campaign line 543: progress.mark_failed(email, error_msg), up to its
\* call of _save.
MarkFailed ==
    /\ pc = "mark_failed"
    /\ data' = mark_failed(data, pending[i], errmsg)
    /\ calls' = calls \cup {"mark_failed"}
    /\ caller' = "mark_failed"
    /\ save_base' = file
    /\ pc' = "save_open"
    /\ UNCHANGED <<disk, env, runs, exit, args, run_locals, start, skipped, all_pending,
                   sends, outcomes>>

\* _save line 231: temp_path = PROGRESS_PATH.with_suffix(".tmp"); the variant
\* writes the progress file in place.
InPlace == "file"

temp_path == "tmp"

\* The disk after `content` is written to `path`.
Write(path, content) ==
    IF path = "tmp" THEN tmp' = content /\ file' = file
    ELSE file' = content /\ tmp' = tmp

\* _save lines 228-232: stamp last_updated, open the temporary file for
\* writing (which truncates it).
SaveOpen ==
    /\ pc = "save_open"
    /\ data' = [data EXCEPT !.last_updated = TRUE]
    /\ Write(temp_path, Partial)
    /\ pc' = "save_dump"
    /\ UNCHANGED <<env, runs, exit, args, caller, run_locals, history>>

\* _save line 233: json.dump writes the whole ledger and the file is closed.
SaveDump ==
    /\ pc = "save_dump"
    /\ Write(temp_path, Stored(data))
    /\ pc' = "save_rename"
    /\ UNCHANGED <<env, runs, exit, args, data, caller, run_locals, history>>

\* What the progress file holds after temp_path.replace(PROGRESS_PATH), and a
\* variant in which the rename is lost.
KeepOld(old, new) == old

Replaced(old, new) == new

\* The send loop after an attempt is recorded (lines 550-553, 527).
Advance ==
    IF i < Len(pending) THEN i' = i + 1 /\ pc' = "send"
    ELSE i' = i /\ pc' = "summary"

\* The variant leaves the loop after a failure.
StopAfterFailure == i' = i /\ pc' = "summary"

AdvanceAfterFailure == Advance

\* _save line 234 and the return to the caller: reset (main lines 595-596),
\* mark_sent (run_campaign lines 538-539) or mark_failed (lines 544-548).
SaveRename ==
    /\ pc = "save_rename"
    /\ IF temp_path = "tmp"
       THEN file' = Replaced(file, tmp) /\ tmp' = Missing
       ELSE UNCHANGED disk
    /\ save_base' = Missing
    /\ caller' = "none"
    /\ CASE caller = "reset" ->
              IF ~args.dry_run /\ ~args.has_limit
              THEN Exit("done") /\ UNCHANGED <<env, runs>>
              ELSE /\ pc' = "run"
                   /\ UNCHANGED <<env, runs, exit, args, data, run_locals, start,
                                  skipped, all_pending, sends, outcomes, calls>>
         [] caller = "mark_sent" ->
              /\ outcomes' = Append(outcomes,
                    [email |-> pending[i], delivered |-> TRUE, reason |-> ""])
              /\ Advance
              /\ calls' = {}
              /\ UNCHANGED <<env, runs, exit, args, data, remaining_today, pending,
                             errmsg, start, skipped, all_pending, sends>>
         [] caller = "mark_failed" ->
              /\ outcomes' = Append(outcomes,
                    [email |-> pending[i], delivered |-> "mark_sent" \in calls,
                     reason |-> errmsg])
              /\ AdvanceAfterFailure
              /\ calls' = {}
              /\ errmsg' = ""
              /\ UNCHANGED <<env, runs, exit, args, data, remaining_today, pending,
                             start, skipped, all_pending, sends>>

\* _save raises (mkdir, open, write or replace fails: OSError).  Inside
\* mark_sent the send loop's "except Exception" catches it (line 541);
\* inside mark_failed or reset nothing does and the process dies.
SaveRaises ==
    /\ pc \in {"save_open", "save_dump", "save_rename"}
    /\ IF caller = "mark_sent"
       THEN /\ errmsg' = SaveError
            /\ data' = [data EXCEPT !.last_updated = TRUE]
            /\ caller' = "none"
            /\ save_base' = Missing
            /\ pc' = "mark_failed"
            /\ UNCHANGED <<disk, env, runs, exit, args, remaining_today, pending,
                           i, start, skipped, all_pending, sends, outcomes, calls>>
       ELSE Exit("save_error") /\ UNCHANGED <<disk, env, runs>>

\* run_campaign lines 555-562: the summary, and the process ends.
Summary ==
    /\ pc = "summary"
    /\ Exit("done")
    /\ UNCHANGED <<disk, env, runs>>

\* Ctrl+C (KeyboardInterrupt, main lines 600-602) or a kill, at any position.
Interrupt ==
    /\ pc # "idle"
    /\ Exit("interrupted")
    /\ UNCHANGED <<disk, env, runs>>

\* UTC midnight passes.
Tick ==
    /\ today < MaxDay
    /\ today' = today + 1
    /\ UNCHANGED <<disk, daily_limit, tpl, delivered, runs, pc, exit, args, data,
                   caller, run_locals, history>>

Next ==
    \/ Launch
    \/ ResetLoad
    \/ Reset
    \/ QuotaCheck
    \/ Fetch
    \/ Preview
    \/ SendOk
    \/ SendFails
    \/ MarkSent
    \/ MarkFailed
    \/ SaveOpen
    \/ SaveDump
    \/ SaveRename
    \/ SaveRaises
    \/ Summary
    \/ Interrupt
    \/ Tick

Spec == Init /\ [][Next]_vars

\* ------------------------------------- campaign runs only, deliveries counted
\* main() is launched without --reset.
LaunchCampaign ==
    /\ Launch
    /\ ~args'.reset

NextQuota ==
    \/ LaunchCampaign
    \/ QuotaCheck
    \/ Fetch
    \/ Preview
    \/ SendCounted
    \/ SendFails
    \/ MarkSent
    \/ MarkFailed
    \/ SaveOpen
    \/ SaveDump
    \/ SaveRename
    \/ SaveRaises
    \/ Summary
    \/ Interrupt
    \/ Tick

SpecQuota == Init /\ [][NextQuota]_vars

\* --------------------------------------------------- build_message alone
main_vars ==
    <<file, tmp, today, daily_limit, runs, pc, exit, args, data, caller,
      remaining_today, pending, i, errmsg, start, skipped, all_pending, sends,
      outcomes, calls, save_base, delivered>>

\* build_message is given a template (subject or body) and a first name.
InitExpand ==
    /\ file = Missing
    /\ tmp = Missing
    /\ today = 0
    /\ daily_limit = 1
    /\ runs = 0
    /\ pc = "idle"
    /\ exit = "none"
    /\ args = NoArgs
    /\ data = DefaultLedger
    /\ caller = "none"
    /\ remaining_today = 0
    /\ pending = <<>>
    /\ i = 0
    /\ errmsg = ""
    /\ start = NoStart
    /\ skipped = 0
    /\ all_pending = <<>>
    /\ sends = <<>>
    /\ outcomes = <<>>
    /\ calls = {}
    /\ save_base = Missing
    /\ delivered = NoneDelivered
    /\ \E t \in Templates, v \in FirstNames :
          tpl = [pc |-> "variables", template |-> t, value |-> v, mid |-> <<>>,
                 text |-> t]

\* build_message lines 191, 194: replace_variables.
Substitute ==
    /\ tpl.pc = "variables"
    /\ LET out == replace_variables(tpl.text, tpl.value)
       IN  tpl' = [tpl EXCEPT !.pc = "spintax", !.mid = out, !.text = out]
    /\ UNCHANGED main_vars

\* process_spintax lines 174-175: the pattern is found, one pass of re.sub.
SpinPass ==
    /\ tpl.pc = "spintax"
    /\ HasGroup(tpl.text)
    /\ \E rnd \in Draws : tpl' = [tpl EXCEPT !.text = SubPass(tpl.text, rnd, 1)]
    /\ UNCHANGED main_vars

\* process_spintax lines 174, 177: the pattern is not found, return text.
SpinDone ==
    /\ tpl.pc = "spintax"
    /\ ~HasGroup(tpl.text)
    /\ tpl' = [tpl EXCEPT !.pc = "done"]
    /\ UNCHANGED main_vars

NextExpand ==
    \/ Substitute
    \/ SpinPass
    \/ SpinDone

SpecExpand == InitExpand /\ [][NextExpand]_vars

\* ------------------------------------------------------------------ claims
LowerSent(d) == {Lower(d.sent[k]) : k \in 1..Len(d.sent)}

InSave == pc \in {"save_open", "save_dump", "save_rename"}

\* C1: in a run, the sender is never invoked for an address that, compared
\* case-insensitively, was in the ledger's sent list when the run loaded it,
\* and never twice for one address.
C1_NeverResends ==
    /\ \A k \in 1..Len(sends) : Lower(sends[k]) \notin LowerSent(start.data)
    /\ \A k, m \in 1..Len(sends) : Lower(sends[k]) = Lower(sends[m]) => k = m

\* A run that skipped an address already sent has sent to another one.
C1_Witness ==
    /\ pc = "summary"
    /\ Len(sends) >= 1
    /\ skipped >= 1
    /\ start.data.sent # <<>>

\* C2: at every position of a run the progress file holds the outcome of
\* every finished attempt of the run, at most one attempt is in flight, and
\* what the ledger held when the run started is still there.
C2_OutcomesPersisted ==
    /\ \A k \in 1..Len(outcomes) :
          LET o == outcomes[k]
          IN  IF o.delivered THEN o.email \in Range(file.led.sent)
              ELSE /\ o.email \in DOMAIN file.led.failed
                   /\ file.led.failed[o.email] = o.reason
    /\ Len(outcomes) <= Len(sends)
    /\ Len(sends) <= Len(outcomes) + 1
    /\ pc = "send" => Len(sends) = Len(outcomes)
    /\ start # NoStart =>
          /\ Len(file.led.sent) >= Len(start.data.sent)
          /\ SubSeq(file.led.sent, 1, Len(start.data.sent)) = start.data.sent
          /\ DOMAIN start.data.failed \subseteq DOMAIN file.led.failed

\* The second send of a run is about to start, after a first attempt that
\* failed, on a ledger that already held a sent address.
C2_Witness ==
    /\ pc = "send"
    /\ i = 2
    /\ ~outcomes[1].delivered
    /\ start.data.sent # <<>>

\* C3: while _save runs, up to its rename, the progress file is the file
\* _save found, and the progress file is never a partial dump; so a crash
\* there leaves the committed ledger, which _load reads back.
C3_AtomicSave ==
    /\ file.kind # "partial"
    /\ InSave =>
          /\ file = save_base
          /\ ~LoadRaises(save_base) => LoadData(file) = save_base.led

\* _save has opened the temporary file, which is partial, over a committed
\* ledger that differs from the one being written.
C3_Witness ==
    /\ pc = "save_dump"
    /\ tmp = Partial
    /\ file.kind = "ledger"
    /\ file.led.sent # data.sent

Min3(a, b, c) == Min(a, Min(b, c))

\* C4: a run with an explicit limit L >= 0 processes exactly
\* min(L, daily_remaining, number pending) recipients, the leading ones of
\* the pending list in order.
C4_LimitComposition ==
    args.has_limit =>
        /\ pc \in {"send", "preview", "summary"} =>
              /\ Len(pending) = Min3(args.limit, remaining_today, Len(all_pending))
              /\ pending = SubSeq(all_pending, 1, Len(pending))
        /\ pc = "summary" =>
              /\ Len(outcomes) = Min3(args.limit, remaining_today, Len(all_pending))
              /\ \A k \in 1..Len(outcomes) : outcomes[k].email = all_pending[k]

\* The same for limits L >= 1 only (it holds: the divergence is L = 0).
C4_PositiveLimit == args.limit >= 1 => C4_LimitComposition

\* C5: a dry run of run_campaign changes neither the progress file nor the
\* temporary file nor the ledger it loaded, and never reaches the sender,
\* mark_sent, mark_failed or _save.
C5_DryRunFrame ==
    [][(args.dry_run /\ pc \in {"run", "fetch", "preview"}) =>
          /\ disk' = disk
          /\ pc' \in {"run", "fetch", "preview", "idle"}
          /\ (pc' \in {"fetch", "preview"}) => data' = LoadData(file)
          /\ sends' = <<>> /\ calls' = {} /\ outcomes' = <<>>]_vars

\* A dry run previews pending recipients over a ledger that holds sent
\* addresses and failures.
C5_Witness ==
    /\ pc = "preview"
    /\ args.dry_run
    /\ file.kind = "ledger"
    /\ file.led.sent # <<>>
    /\ pending # <<>>

\* C6: when the sender raises, mark_failed sets failed[email] to the error
\* text (replacing an older reason) and leaves sent, daily_count and
\* daily_date alone; when mark_failed returns, the file holds that reason
\* and the loop is at the next pending recipient, or at the summary after
\* the last one.
C6_FailureRecorded ==
    [][/\ (pc = "send" /\ pc' \notin {"send", "idle"}) =>
              pc' \in {"mark_sent", "mark_failed"} /\ data' = data
       /\ (pc = "mark_failed" /\ "mark_sent" \notin calls /\ pc' = "save_open") =>
              /\ DOMAIN data'.failed = DOMAIN data.failed \cup {pending[i]}
              /\ data'.failed[pending[i]] = errmsg
              /\ \A e \in DOMAIN data.failed \ {pending[i]} :
                    data'.failed[e] = data.failed[e]
              /\ data'.sent = data.sent
              /\ data'.daily_count = data.daily_count
              /\ data'.daily_date = data.daily_date
       /\ (pc = "save_rename" /\ caller = "mark_failed"
              /\ pc' \notin {"save_rename", "idle"}) =>
              /\ file'.led.failed[pending[i]] = errmsg
              /\ pc' = (IF i < Len(pending) THEN "send" ELSE "summary")
              /\ i' = (IF i < Len(pending) THEN i + 1 ELSE i)
              /\ pending' = pending]_vars

\* The loop is at its second recipient after the first one failed with a
\* reason that replaced an older one.
C6_Witness ==
    /\ pc = "send"
    /\ i = 2
    /\ ~outcomes[1].delivered
    /\ outcomes[1].email \in DOMAIN start.data.failed
    /\ start.data.failed[outcomes[1].email] # outcomes[1].reason
    /\ file.led.failed[outcomes[1].email] = outcomes[1].reason
    /\ outcomes[1].email \notin Range(file.led.sent)

\* C7: loading the ledger never ends the program: with a missing or corrupt
\* progress file the store starts as the empty ledger and the run goes on.
C7_LoadNeverFatal ==
    /\ exit # "load_error"
    /\ (pc = "fetch" /\ start.file.kind # "ledger") => data = DefaultLedger

\* The day's count: daily_count if daily_date is `day`, else 0.
DayCount(d, day) == IF d.daily_date = day THEN d.daily_count ELSE 0

\* mark_sent's step: 1 on a new date, one more on the same date.
MarkSentCounts ==
    (pc = "mark_sent" /\ pc' = "save_open") =>
        IF data.daily_date # today
        THEN data'.daily_date = today /\ data'.daily_count = 1
        ELSE data'.daily_date = today /\ data'.daily_count = data.daily_count + 1

\* get_daily_count in the quota check: 0 or the stored counter, and the
\* ledger stays as loaded.
DailyCountRead ==
    (pc = "run" /\ pc' = "fetch") =>
        /\ data' = LoadData(file)
        /\ disk' = disk
        /\ remaining_today' = daily_limit - DayCount(data', today)

\* C8 as stated: mark_sent counts as above, get_daily_count is a pure read,
\* and over store operations on one UTC date daily_count never decreases.
C8_AsStated ==
    [][/\ MarkSentCounts
       /\ DailyCountRead
       /\ (pc # "idle" /\ pc' # "idle" /\ today' = today) =>
              data'.daily_count >= data.daily_count]_vars

\* C8 amended: the same, but what never decreases on one UTC date, over
\* store operations other than reset, is the day's count (get_daily_count),
\* in memory and in the progress file.
C8_DailyCount ==
    [][/\ MarkSentCounts
       /\ DailyCountRead
       /\ (pc \notin {"idle", "reset_call"} /\ pc' # "idle" /\ today' = today) =>
              DayCount(data', today) >= DayCount(data, today)
       /\ (caller # "reset" /\ today' = today) =>
              DayCount(file'.led, today) >= DayCount(file.led, today)]_vars

\* mark_sent has counted 1 on a new date, over a ledger that counted 2 on
\* the date before.
C8_Witness ==
    /\ pc = "save_open"
    /\ caller = "mark_sent"
    /\ data.daily_count = 1
    /\ start.data.daily_count = 2
    /\ start.data.daily_date # today

\* C9: one send attempt calls exactly one of mark_sent and mark_failed,
\* never both, also when the save inside mark_sent raises.
C9_ExclusiveOutcome == Cardinality(calls) <= 1

\* Whether, and how often, pat occurs in t.
Contains(t, pat) == \E p \in 1..Len(t) : StartsWith(SubSeq(t, p, Len(t)), pat)

Occurrences(t, pat) ==
    Cardinality({p \in 1..Len(t) : StartsWith(SubSeq(t, p, Len(t)), pat)})

C11_DailyQuota == \A d \in 0..MaxDay : delivered[d] <= daily_limit

\* The part of it that holds: a run that starts with get_daily_count() >=
\* daily_limit ends at the quota check, with no send attempted.
C11_NoSendAtQuota ==
    [][(pc = "run" /\ ~LoadRaises(file)
            /\ get_daily_count(LoadData(file), today) >= daily_limit) =>
          /\ pc' \in {"run", "idle"}
          /\ sends' = <<>>
          /\ delivered' = delivered
          /\ disk' = disk]_vars

====
